---- MODULE Spec2Model ----
(***************************************************************************)
(* Model of pip_release_report.py: the report run (main), the registry     *)
(* fetch cache (fetch_pypi / fetch_npm), the version policy, the row       *)
(* computation, the approval ordering (ba_sort_key) and the row expansion; *)
(* and, each called alone, get_latest_version, the latest-version choice   *)
(* of a PyPI record, get_npm_latest_version, sanitize_sheet_name and       *)
(* load_ba_map.                                                            *)
(*                                                                         *)
(* Representation.                                                         *)
(*   None            the empty tuple <<>>; a present value v is <<v>>.     *)
(*   dt.date         a day number (an integer); date subtraction is        *)
(*                   integer subtraction.                                  *)
(*   timestamp text  <<"iso", d>> parses to day d; <<"bad">> makes         *)
(*                   fromisoformat raise ValueError.                       *)
(*   dict            a sequence of <<key, value>> pairs with distinct keys,*)
(*                   in insertion order.                                   *)
(*   list row        a 13-tuple; Python index i is TLA+ index i + 1 (Col). *)
(*   str order       position in a sequence listing the strings of the     *)
(*                   model in Python's (code point) order.                 *)
(*   str (name)      for sanitize_sheet_name, the sequence of characters.  *)
(*   exception       Raised, where InvalidVersion leaves a function.       *)
(***************************************************************************)
EXTENDS Integers, Sequences, FiniteSets, TLC

\* ------------------------------------------------------------------ bounds
\* Largest number of dependency records over all folders of one run.
MaxItems == 2
\* Largest number of approvals matching one row (approval ordering alone).
MaxBA == 3
\* Largest number of keys of a releases dict or a time map (one function alone).
MaxKeys == 3
\* Largest number of rows of the approval ledger file (one function alone).
MaxRows == 3
\* Largest number of characters of a folder name ahead of its run of letters.
MaxPrefix == 2

\* --------------------------------------------------------------- constants
alert_threshold_days == 2 * 365 - 2 * 31

EXCLUDED_PACKAGES == {"colorlog", "django-extensions", "redis", "setuptools", "wheel"}

summary_sections == <<"sources", "tipcms", "collection">>

\* ------------------------------------------------------------ None / values
None == <<>>

Some(v) == <<v>>

IsNone(x) == x = None

Val(x) == x[1]

\* Python index i of a list row.
Col(row, i) == row[i + 1]

RECURSIVE SeqToSet(_)
SeqToSet(s) == IF s = <<>> THEN {} ELSE {Head(s)} \cup SeqToSet(Tail(s))

\* dict.get(key): the value stored under key, None when the key is absent.
RECURSIVE DictGet(_, _)
DictGet(d, k) ==
    IF d = <<>> THEN None
    ELSE IF Head(d)[1] = k THEN Some(Head(d)[2])
    ELSE DictGet(Tail(d), k)

\* dict.keys(), in insertion order.
DictKeys(d) == [i \in 1..Len(d) |-> d[i][1]]

\* ------------------------------------------------------------ str.lower()
Lower(s) ==
    CASE s = "Redis" -> "redis"
      [] s = "Django" -> "django"
      [] s = "Requests" -> "requests"
      [] s = "Approved" -> "approved"
      [] s = "APPROVED" -> "approved"
      [] OTHER -> s

\* ------------------------------------------------- datetime.fromisoformat
\* The day of a timestamp text, None where the code catches ValueError.
FromIso(ts) == IF ts[1] = "iso" THEN Some(ts[2]) ELSE None

\* ------------------------------------------------------------------ state
VARIABLES
    vparse,          \* TRUE iff packaging.version.parse was imported (lines 11-14)
    legacy,          \* TRUE iff the imported parse gives a LegacyVersion for a string
                     \* outside PEP 440 (packaging before 22) instead of raising
    today,           \* dt.date.today() of the run (line 317)
    grouped,         \* folder -> list of (name, version, ecosystem) (lines 264-272)
    ba_map,          \* load_ba_map's result: dict key -> dict ba_id -> meta (line 274)
    pypi_cache,      \* dict name -> data or None (line 281)
    npm_cache,       \* dict name -> data or None (line 282)
    requests,        \* the session.get calls issued so far, as <<ecosystem, name>>
    pc,              \* position of main: "items", "sort", "emit", "summary", "done", "raised"
    fidx,            \* index of the current folder in sorted(grouped.items())
    iidx,            \* number of items of the current folder already processed
    ridx,            \* number of rows_info entries of the current folder already emitted
    rows_info,       \* rows_info of the current folder (line 326)
    ws,              \* folder -> rows appended to its sheet, header excluded
    ws_src,          \* folder -> for each row of ws, the rows_info index it came from
    flagged_src,     \* folder -> rows_info indexes whose rows went to flagged_by_section
    zero_src,        \* folder -> rows_info indexes whose rows went to zero_diff_by_section
    built,           \* folder -> rows_info of the folder as it stood after its sort
    flagged_by_section,    \* line 300
    zero_diff_by_section,  \* line 301
    summary_rows,    \* rows written to the "Upgradation" sheet (lines 558-567)
    zero_rows,       \* rows written to the "Replace-Remove Libs" sheet (lines 658-667)
    ba_in,           \* approval ordering alone: the ba_ids_map handed to sorted()
    ba_out,          \* approval ordering alone: the resulting ba_entries, None before
    call,            \* one function alone: its name and arguments
    ret              \* one function alone: Some(what it gave), None before the call

vars == <<vparse, legacy, call, ret, today, grouped, ba_map, pypi_cache, npm_cache, requests, pc, fidx,
          iidx, ridx, rows_info, ws, ws_src, flagged_src, zero_src, built,
          flagged_by_section, zero_diff_by_section, summary_rows, zero_rows, ba_in, ba_out>>

\* ---------------------------------------------------------- version policy
\* What a function of the version policy gives: None, Some(version), or
\* Raised where packaging's InvalidVersion leaves it uncaught.
Raised == <<"raise", "InvalidVersion">>

IsRaised(r) == Len(r) = 2

\* packaging.version.parse on the version strings of the model: the release
\* tuple and which marker the version carries. "invalid" is a string outside
\* PEP 440, for which parse raises InvalidVersion (packaging 22 and later) or
\* gives a LegacyVersion (before 22).
VParse(v) ==
    CASE v = "1.9"          -> [release |-> <<1, 9>>,    kind |-> "final"]
      [] v = "1.10"         -> [release |-> <<1, 10>>,   kind |-> "final"]
      [] v = "2.0"          -> [release |-> <<2, 0>>,    kind |-> "final"]
      [] v = "2.1rc1"       -> [release |-> <<2, 1>>,    kind |-> "pre"]
      [] v = "2.2.post1"    -> [release |-> <<2, 2>>,    kind |-> "post"]
      [] v = "2.3.dev1"     -> [release |-> <<2, 3>>,    kind |-> "dev"]
      [] v = "2.4+local"    -> [release |-> <<2, 4>>,    kind |-> "local"]
      [] v = "1.0.0"        -> [release |-> <<1, 0, 0>>, kind |-> "final"]
      [] v = "1.2.0"        -> [release |-> <<1, 2, 0>>, kind |-> "final"]
      [] v = "2.0.0-beta.1" -> [release |-> <<2, 0, 0>>, kind |-> "pre"]
      [] v = "1.0.0-next.1" -> [release |-> <<>>,        kind |-> "invalid"]
      [] v = "2004d"        -> [release |-> <<>>,        kind |-> "invalid"]
      [] v = "1.x"          -> [release |-> <<>>,        kind |-> "invalid"]

InvalidVersion(v) == VParse(v).kind = "invalid"

\* vparse(v) raises InvalidVersion.
vparse_raises(v) == InvalidVersion(v) /\ ~legacy

\* Lexicographic order of integer tuples (Python tuple comparison).
RECURSIVE TupleLess(_, _)
TupleLess(a, b) ==
    IF b = <<>> THEN FALSE
    ELSE IF a = <<>> THEN TRUE
    ELSE IF Head(a) # Head(b) THEN Head(a) < Head(b)
    ELSE TupleLess(Tail(a), Tail(b))

\* Version.__lt__: by release, then dev < pre < final < local < post of one release.
KindRank(k) ==
    CASE k = "dev" -> 0 [] k = "pre" -> 1 [] k = "final" -> 2 [] k = "local" -> 3
      [] k = "post" -> 4

\* The LegacyVersion strings of the model in their order.
LegacyOrder == <<"1.0.0-next.1", "1.x", "2004d">>

\* A LegacyVersion (epoch -1) is below every Version.
VersionLess(a, b) ==
    LET pa == VParse(a)
        pb == VParse(b)
    IN  IF pa.kind = "invalid" /\ pb.kind = "invalid"
        THEN (CHOOSE i \in 1..Len(LegacyOrder) : LegacyOrder[i] = a)
               < (CHOOSE i \in 1..Len(LegacyOrder) : LegacyOrder[i] = b)
        ELSE IF pa.kind = "invalid" THEN TRUE
        ELSE IF pb.kind = "invalid" THEN FALSE
        ELSE IF pa.release # pb.release THEN TupleLess(pa.release, pb.release)
        ELSE KindRank(pa.kind) < KindRank(pb.kind)

\* max(versions, key=vparse): the first element no later element exceeds.
RECURSIVE MaxVersionFrom(_, _)
MaxVersionFrom(best, rest) ==
    IF rest = <<>> THEN best
    ELSE IF VersionLess(best, Head(rest)) THEN MaxVersionFrom(Head(rest), Tail(rest))
    ELSE MaxVersionFrom(best, Tail(rest))

MaxVersion(versions) == MaxVersionFrom(Head(versions), Tail(versions))

\* The value of is_stable_version where vparse(version) does not raise: a
\* LegacyVersion is neither pre, post nor dev release and has no local part.
is_stable_version(version) ==
    IF ~vparse THEN FALSE
    ELSE IF InvalidVersion(version) THEN legacy
    ELSE VParse(version).kind = "final"

\* `v and is_stable_version(v)` over a list of keys.
StableOnly(versions) == SelectSeq(versions, LAMBDA v : v # "" /\ is_stable_version(v))

\* Some key for which is_stable_version is called makes vparse raise.
AnyRaises(versions, skipped) ==
    \E i \in 1..Len(versions) : versions[i] \notin skipped /\ vparse_raises(versions[i])

get_latest_version(info, releases) ==
    IF ~vparse THEN DictGet(info, "version")
    ELSE IF AnyRaises(DictKeys(releases), {""}) THEN Raised
    ELSE LET versions == StableOnly(DictKeys(releases))
         IN  IF versions = <<>> THEN None ELSE Some(MaxVersion(versions))

get_latest_version_same_major(releases, current_version) ==
    IF ~vparse THEN None
    ELSE IF InvalidVersion(current_version) THEN None
    ELSE IF AnyRaises(DictKeys(releases), {""}) THEN Raised
    ELSE LET current_major == VParse(current_version).release[1]
             candidates == SelectSeq(StableOnly(DictKeys(releases)),
                               LAMBDA v : /\ VParse(v).release # <<>>
                                          /\ VParse(v).release[1] = current_major)
         IN  IF candidates = <<>> THEN None ELSE Some(MaxVersion(candidates))

\* Lines 360-365: the latest version of a PyPI record.
pypi_latest_version(name, info, releases, current_version) ==
    IF Lower(name) = "django"
    THEN LET latest_version == get_latest_version_same_major(releases, current_version)
         IN  IF IsRaised(latest_version) THEN Raised
             ELSE IF IsNone(latest_version) THEN get_latest_version(info, releases)
             ELSE latest_version
    ELSE get_latest_version(info, releases)

\* ----------------------------------------------------------- release dates
RECURSIVE MinOf(_)
MinOf(s) ==
    IF Len(s) = 1 THEN Head(s)
    ELSE LET m == MinOf(Tail(s)) IN IF Head(s) <= m THEN Head(s) ELSE m

\* The parsed upload times of the files that carry a parseable one.
RECURSIVE UploadDates(_)
UploadDates(files) ==
    IF files = <<>> THEN <<>>
    ELSE LET ts == Head(files)
             d == IF IsNone(ts) THEN None ELSE FromIso(Val(ts))
         IN  (IF IsNone(d) THEN <<>> ELSE <<Val(d)>>) \o UploadDates(Tail(files))

get_release_date(releases, version) ==
    LET got == DictGet(releases, version)
        files == IF IsNone(got) THEN <<>> ELSE Val(got)
        dates == UploadDates(files)
    IN  IF dates = <<>> THEN None ELSE Some(MinOf(dates))

get_npm_release_date(time_map, version) ==
    IF IsNone(version) THEN None
    ELSE LET ts == DictGet(time_map, Val(version))
         IN  IF IsNone(ts) THEN None ELSE FromIso(Val(ts))

get_npm_latest_version(data) ==
    LET dist_tags == DictGet(data, "dist-tags")
        latest == IF IsNone(dist_tags) THEN None ELSE DictGet(Val(dist_tags), "latest")
        tm == DictGet(data, "time")
        time_map == IF IsNone(tm) THEN <<>> ELSE Val(tm)
        versions == SelectSeq(DictKeys(time_map),
                        LAMBDA v : v \notin {"created", "modified"} /\ is_stable_version(v))
    IN  IF ~vparse THEN latest
        ELSE IF ~IsNone(latest) /\ vparse_raises(Val(latest)) THEN Raised
        ELSE IF ~IsNone(latest) /\ is_stable_version(Val(latest)) THEN latest
        ELSE IF AnyRaises(DictKeys(time_map), {"created", "modified"}) THEN Raised
        ELSE IF versions = <<>> THEN None
        ELSE Some(MaxVersion(versions))

\* NPM_VERSION_RE.search(spec) on the specifiers of the model.
extract_npm_version(spec) ==
    CASE spec = "^1.0.0" -> Some("1.0.0")
      [] spec = "~1.2.0" -> Some("1.2.0")
      [] spec = "workspace:*" -> None

\* ------------------------------------------------------------------ sorted
\* sorted(..., reverse=True) over items decorated with their key, an integer
\* tuple: descending by key, items of equal key in their original order.
RECURSIVE InsertDesc(_, _)
InsertDesc(sortedSeq, x) ==
    IF sortedSeq = <<>> THEN <<x>>
    ELSE IF TupleLess(Head(sortedSeq)[1], x[1]) THEN <<x>> \o sortedSeq
    ELSE <<Head(sortedSeq)>> \o InsertDesc(Tail(sortedSeq), x)

RECURSIVE SortedDesc(_)
SortedDesc(s) ==
    IF s = <<>> THEN <<>>
    ELSE InsertDesc(SortedDesc(SubSeq(s, 1, Len(s) - 1)), s[Len(s)])

Bool01(b) == IF b THEN 1 ELSE 0

\* ------------------------------------------------------ approval ordering
\* dt.date.max as a day number (date.max.toordinal()).
DateMax == 3652059

\* The approval IDs of the model in Python's string order.
BAIdOrder == <<"BA-1", "BA-10", "BA-2", "BA-3">>

StrRank(order, x) == CHOOSE i \in 1..Len(order) : order[i] = x

\* key_date of ba_sort_key: the end date as a date, None when absent or unparseable.
ba_key_date(meta) ==
    LET end_date == meta.end_date
    IN  IF IsNone(end_date) THEN None
        ELSE IF Val(end_date)[1] = "date" THEN Some(Val(end_date)[2])
        ELSE FromIso(Val(end_date)[2])

\* status_priority with "approved" as the low value.
ba_status_priority_flipped(meta) ==
    LET status == IF IsNone(meta.status) THEN "" ELSE Lower(Val(meta.status))
    IN  IF status = "approved" THEN 0 ELSE 1

ba_status_priority(meta) ==
    LET status == IF IsNone(meta.status) THEN "" ELSE Lower(Val(meta.status))
    IN  IF status = "approved" THEN 1 ELSE 0

\* ba_sort_key whose first component is `key_date is not None`.
ba_sort_key_dated_first(item) ==
    LET key_date == ba_key_date(item[2])
    IN  << Bool01(~IsNone(key_date)),
           IF IsNone(key_date) THEN DateMax ELSE Val(key_date),
           ba_status_priority(item[2]),
           StrRank(BAIdOrder, item[1]) >>

\* item is <<ba_id, meta>>.
ba_sort_key(item) ==
    LET key_date == ba_key_date(item[2])
    IN  << Bool01(IsNone(key_date)),
           IF IsNone(key_date) THEN DateMax ELSE Val(key_date),
           ba_status_priority(item[2]),
           StrRank(BAIdOrder, item[1]) >>

\* sorted(ba_ids_map.items(), key=ba_sort_key, reverse=True)
SortBA(ba_ids_map) ==
    LET decorated == [i \in 1..Len(ba_ids_map) |-> <<ba_sort_key(ba_ids_map[i]), ba_ids_map[i]>>]
        ordered == SortedDesc(decorated)
    IN  [i \in 1..Len(ordered) |-> ordered[i][2]]

\* ba_entries of a row: the ordered approvals of (name.lower(), ba_version).
ba_entries_of(name, ba_version) ==
    IF IsNone(ba_version) THEN <<>>
    ELSE LET ba_ids_map == DictGet(ba_map, <<Lower(name), Val(ba_version)>>)
         IN  IF IsNone(ba_ids_map) \/ Val(ba_ids_map) = <<>> THEN <<>>
             ELSE SortBA(Val(ba_ids_map))

\* ------------------------------------------------------------ row building
\* `not data`: None or an empty document.
Falsy(data) == IsNone(data) \/ Val(data) = <<>>

GetOr(d, k, default) == LET got == DictGet(d, k) IN IF IsNone(got) THEN default ELSE Val(got)

\* The entry appended for a record whose fetch gave nothing: a 2-tuple.
failed_entry(name, current_version) ==
    << <<name, current_version, None, None, None, None, None, None,
         None, None, None, None, None>>, FALSE >>

pypi_resolve(name, current_version, data) ==
    LET info == GetOr(data, "info", <<>>)
        releases == GetOr(data, "releases", <<>>)
        latest_version == pypi_latest_version(name, info, releases, current_version)
    IN  [ current_date |-> get_release_date(releases, current_version),
          latest_version |-> latest_version,
          latest_date |-> IF IsNone(latest_version) THEN None
                          ELSE get_release_date(releases, Val(latest_version)),
          ba_version |-> Some(current_version) ]

npm_resolve(name, current_version, data) ==
    LET time_map == GetOr(data, "time", <<>>)
        current_resolved == extract_npm_version(current_version)
        latest_version == get_npm_latest_version(data)
    IN  [ current_date |-> get_npm_release_date(time_map, current_resolved),
          latest_version |-> latest_version,
          latest_date |-> get_npm_release_date(time_map, latest_version),
          ba_version |-> current_resolved ]

\* days_diff with a negative difference corrected to 0.
days_diff_of_clamped(current_date, latest_date) ==
    IF ~IsNone(current_date) /\ ~IsNone(latest_date)
    THEN Some(IF Val(latest_date) < Val(current_date) THEN 0
              ELSE Val(latest_date) - Val(current_date))
    ELSE None

days_diff_of(current_date, latest_date) ==
    IF ~IsNone(current_date) /\ ~IsNone(latest_date)
    THEN Some(Val(latest_date) - Val(current_date)) ELSE None

days_since(date) == IF ~IsNone(date) THEN Some(today - Val(date)) ELSE None

\* is_alert with the threshold itself counted as stale (>= for >).
is_alert_of_at_threshold(days_since_current, days_diff) ==
    /\ ~IsNone(days_since_current)
    /\ Val(days_since_current) >= alert_threshold_days
    /\ ~IsNone(days_diff)
    /\ Val(days_diff) > 0

is_alert_of(days_since_current, days_diff) ==
    /\ ~IsNone(days_since_current)
    /\ Val(days_since_current) > alert_threshold_days
    /\ ~IsNone(days_diff)
    /\ Val(days_diff) > 0

\* The entry appended for a resolved record: (row, is_alert, ba_entries).
resolved_entry(name, current_version, r) ==
    LET days_diff == days_diff_of(r.current_date, r.latest_date)
        days_since_latest == days_since(r.latest_date)
        days_since_current == days_since(r.current_date)
        row == <<name, current_version, r.current_date, r.latest_version, r.latest_date,
                 days_diff, days_since_latest, days_since_current,
                 None, None, None, None, None>>
    IN  <<row, is_alert_of(days_since_current, days_diff), ba_entries_of(name, r.ba_version)>>

\* The PyPI loop body with a failure path that appends nothing.
pypi_entries_drop_failed(name, current_version, data) ==
    IF Falsy(data) THEN <<>>
    ELSE <<resolved_entry(name, current_version,
                          pypi_resolve(name, current_version, Val(data)))>>

\* What the loop body appends to rows_info for one PyPI record, given the
\* fetched data (lines 334-367, 400-453).
pypi_entries(name, current_version, data) ==
    IF Falsy(data) THEN <<failed_entry(name, current_version)>>
    ELSE <<resolved_entry(name, current_version,
                          pypi_resolve(name, current_version, Val(data)))>>

\* The same for one NPM record (lines 370-398, 400-453).
npm_entries(name, current_version, data) ==
    IF Falsy(data) THEN <<failed_entry(name, current_version)>>
    ELSE <<resolved_entry(name, current_version,
                          npm_resolve(name, current_version, Val(data)))>>

\* fetch_pypi / fetch_npm: resp is what the registry would answer, None for a
\* non-200 status or a RequestException.
\* fetch_pypi that takes a cached None for a miss (`if cache.get(name)`).
fetch_pypi_retry_failed(name, cache, resp) ==
    IF name \in DOMAIN cache /\ ~IsNone(cache[name])
    THEN [ret |-> cache[name], cache |-> cache, issued |-> FALSE]
    ELSE [ret |-> resp, cache |-> (name :> resp) @@ cache, issued |-> TRUE]

fetch_pypi(name, cache, resp) ==
    IF name \in DOMAIN cache
    THEN [ret |-> cache[name], cache |-> cache, issued |-> FALSE]
    ELSE [ret |-> resp, cache |-> cache @@ (name :> resp), issued |-> TRUE]

fetch_npm(name, cache, resp) ==
    IF name \in DOMAIN cache
    THEN [ret |-> cache[name], cache |-> cache, issued |-> FALSE]
    ELSE [ret |-> resp, cache |-> cache @@ (name :> resp), issued |-> TRUE]

\* ------------------------------------------------------------------ inputs
\* The folders that hold manifests, in sorted() order.
FolderOrder == <<"misc", "sources">>

Folders == SeqToSet(FolderOrder)

Sections == SeqToSet(summary_sections)

\* The (name, version, ecosystem) records the manifests may hold.
Recs == { <<"requests", "1.9", "pypi">>,
          <<"Redis", "1.9", "pypi">>,
          <<"Django", "1.9", "pypi">>,
          <<"left-pad", "^1.0.0", "npm">>,
          <<"left-pad", "workspace:*", "npm">> }

SeqsUpTo(S, n) == UNION { [1..k -> S] : k \in 0..n }

Groupings ==
    { g \in [Folders -> SeqsUpTo(Recs, MaxItems)] :
        Len(g["misc"]) + Len(g["sources"]) <= MaxItems }

Todays == {768, 1000}

Iso(d) == Some(<<"iso", d>>)

\* PyPI JSON documents: {"info": {"version"}, "releases": {version: [files]}},
\* a file being its upload time text or None.
\* Every version text of these documents and of NpmDocs is a PEP 440 version,
\* so vparse raises nowhere in a run over them and legacy plays no part in it.
PypiDocs ==
    { << <<"info", << <<"version", "2.1rc1">> >> >>,
         <<"releases", << <<"1.9", <<Iso(120), Iso(100)>> >>,
                          <<"1.10", <<Iso(500)>> >>,
                          <<"2.0", <<Iso(990)>> >>,
                          <<"2.1rc1", <<Iso(995)>> >> >> >> >>,
      << <<"info", << <<"version", "1.9">> >> >>,
         <<"releases", << <<"1.9", <<Iso(100)>> >> >> >> >>,
      << <<"info", << <<"version", "1.10">> >> >>,
         <<"releases", << <<"1.10", <<None, Some(<<"bad">>), Iso(100)>> >>,
                          <<"1.9", <<Iso(990)>> >> >> >> >>,
      << <<"releases", << <<"2.0", <<None>> >>,
                          <<"2.1rc1", <<Iso(990)>> >> >> >> >> }

\* NPM JSON documents: {"dist-tags": {"latest"}, "time": {version: text}}.
NpmDocs ==
    { << <<"dist-tags", << <<"latest", "1.2.0">> >> >>,
         <<"time", << <<"created", <<"iso", 90>> >>,
                      <<"modified", <<"iso", 990>> >>,
                      <<"1.0.0", <<"iso", 100>> >>,
                      <<"1.2.0", <<"iso", 990>> >> >> >> >>,
      << <<"dist-tags", << <<"latest", "2.0.0-beta.1">> >> >>,
         <<"time", << <<"created", <<"iso", 90>> >>,
                      <<"1.0.0", <<"iso", 100>> >>,
                      <<"2.0.0-beta.1", <<"iso", 990>> >> >> >> >>,
      << <<"time", << <<"modified", <<"iso", 990>> >>,
                      <<"1.2.0", <<"bad">> >> >> >> >> }

\* What a registry answers: None (non-200 status, RequestException) or a document.
PypiResponses == {None} \cup { Some(d) : d \in PypiDocs }

NpmResponses == {None} \cup { Some(d) : d \in NpmDocs }

Meta(created, end_date, end_action, status) ==
    [created |-> created, end_date |-> end_date, end_action |-> end_action, status |-> status]

DateV(d) == Some(<<"date", d>>)

\* The approval ledgers of the model, as load_ba_map returns them: none, or one
\* with two approvals for requests 1.9 and one for left-pad 1.0.0.
Ledgers ==
    { <<>>,
      << << <<"requests", "1.9">>,
            << <<"BA-2", Meta(DateV(10), DateV(1030), Some("renew"), Some("pending"))>>,
               <<"BA-10", Meta(None, None, None, Some("approved"))>> >> >>,
         << <<"left-pad", "1.0.0">>,
            << <<"BA-3", Meta(Some(<<"str", <<"bad">> >>), DateV(1200), None, None)>> >> >> >> }

\* ------------------------------------------------------------- main: state
Init ==
    /\ vparse \in BOOLEAN
    /\ legacy = FALSE
    /\ call = <<>>
    /\ ret = None
    /\ today \in Todays
    /\ grouped \in Groupings
    /\ ba_map \in Ledgers
    /\ pypi_cache = <<>>
    /\ npm_cache = <<>>
    /\ requests = <<>>
    /\ pc = "items"
    /\ fidx = 1
    /\ iidx = 0
    /\ ridx = 0
    /\ rows_info = <<>>
    /\ ws = [f \in Folders |-> <<>>]
    /\ ws_src = [f \in Folders |-> <<>>]
    /\ flagged_src = [f \in Folders |-> {}]
    /\ zero_src = [f \in Folders |-> {}]
    /\ built = [f \in Folders |-> None]
    /\ flagged_by_section = [sec \in Sections |-> <<>>]
    /\ zero_diff_by_section = [sec \in Sections |-> <<>>]
    /\ summary_rows = None
    /\ zero_rows = None
    /\ ba_in = <<>>
    /\ ba_out = None

folder == FolderOrder[fidx]

items == grouped[folder]

\* ------------------------------------------------- main: the item loop body
\* Lines 329-331: a record whose lowercased name is excluded is skipped.
SkipExcluded ==
    /\ pc = "items"
    /\ iidx < Len(items)
    /\ Lower(items[iidx + 1][1]) \in EXCLUDED_PACKAGES
    /\ iidx' = iidx + 1
    /\ UNCHANGED <<vparse, legacy, call, ret, today, grouped, ba_map, pypi_cache, npm_cache, requests, pc,
                   fidx, ridx, rows_info, ws, ws_src, flagged_src, zero_src, built, flagged_by_section,
                   zero_diff_by_section, summary_rows, zero_rows, ba_in, ba_out>>

\* Lines 332-367 and 400-453: one PyPI record.
ProcessPypi ==
    /\ pc = "items"
    /\ iidx < Len(items)
    /\ LET name == items[iidx + 1][1]
           current_version == items[iidx + 1][2]
       IN  /\ Lower(name) \notin EXCLUDED_PACKAGES
           /\ items[iidx + 1][3] = "pypi"
           /\ \E resp \in PypiResponses :
                LET f == fetch_pypi(name, pypi_cache, resp)
                    data == f.ret
                IN  /\ pypi_cache' = f.cache
                    /\ requests' = IF f.issued THEN Append(requests, <<"pypi", name>>)
                                   ELSE requests
                    /\ rows_info' = rows_info \o pypi_entries(name, current_version, data)
    /\ iidx' = iidx + 1
    /\ UNCHANGED <<vparse, legacy, call, ret, today, grouped, ba_map, npm_cache, pc, fidx, ridx, ws, ws_src, flagged_src, zero_src, built,
                   flagged_by_section, zero_diff_by_section, summary_rows, zero_rows,
                   ba_in, ba_out>>

\* Lines 368-398 and 400-453: one NPM record.
ProcessNpm ==
    /\ pc = "items"
    /\ iidx < Len(items)
    /\ LET name == items[iidx + 1][1]
           current_version == items[iidx + 1][2]
       IN  /\ Lower(name) \notin EXCLUDED_PACKAGES
           /\ items[iidx + 1][3] # "pypi"
           /\ \E resp \in NpmResponses :
                LET f == fetch_npm(name, npm_cache, resp)
                    data == f.ret
                IN  /\ npm_cache' = f.cache
                    /\ requests' = IF f.issued THEN Append(requests, <<"npm", name>>)
                                   ELSE requests
                    /\ rows_info' = rows_info \o npm_entries(name, current_version, data)
    /\ iidx' = iidx + 1
    /\ UNCHANGED <<vparse, legacy, call, ret, today, grouped, ba_map, pypi_cache, pc, fidx, ridx, ws, ws_src, flagged_src, zero_src, built,
                   flagged_by_section, zero_diff_by_section, summary_rows, zero_rows,
                   ba_in, ba_out>>

\* ----------------------------------------------------- main: sort and emit
\* The key of rows_info.sort and of the two summary sorts: (v is None, v or -1)
\* of the cell at Python index i.
row_sort_key(row, i) ==
    LET v == Col(row, i)
    IN  << Bool01(IsNone(v)), IF IsNone(v) THEN -1 ELSE Val(v) >>

\* rows_info.sort keyed on days_since_latest_release (r[0][6]).
sort_rows_info_by_latest(infos) ==
    LET decorated == [i \in 1..Len(infos) |-> <<row_sort_key(infos[i][1], 6), infos[i]>>]
        ordered == SortedDesc(decorated)
    IN  [i \in 1..Len(ordered) |-> ordered[i][2]]

\* rows_info.sort(key=lambda r: (r[0][7] is None, ...), reverse=True)
sort_rows_info(infos) ==
    LET decorated == [i \in 1..Len(infos) |-> <<row_sort_key(infos[i][1], 7), infos[i]>>]
        ordered == SortedDesc(decorated)
    IN  [i \in 1..Len(ordered) |-> ordered[i][2]]

\* Lines 454-457: the item loop is over; rows_info is sorted in place.
SortRows ==
    /\ pc = "items"
    /\ iidx = Len(items)
    /\ rows_info' = sort_rows_info(rows_info)
    /\ built' = [built EXCEPT ![folder] = Some(sort_rows_info(rows_info))]
    /\ ridx' = 0
    /\ pc' = "emit"
    /\ UNCHANGED <<vparse, legacy, call, ret, today, grouped, ba_map, pypi_cache, npm_cache, requests, fidx,
                   iidx, ws, ws_src, flagged_src, zero_src, flagged_by_section, zero_diff_by_section, summary_rows,
                   zero_rows, ba_in, ba_out>>

\* row.copy() with the five approval cells of one approval (lines 472-477).
row_with_ba(row, entry) ==
    [row EXCEPT ![9] = Some(entry[1]),
                ![10] = entry[2].status,
                ![11] = entry[2].created,
                ![12] = entry[2].end_date,
                ![13] = entry[2].end_action]

\* expanded_rows of one rows_info entry (lines 461-482).
expanded_rows_of(row, ba_entries) ==
    IF ba_entries = <<>> THEN <<row>>
    ELSE [i \in 1..Len(ba_entries) |-> row_with_ba(row, ba_entries[i])]

\* Line 496.
goes_to_flagged(fold, is_alert) == is_alert /\ fold \in Sections

\* Lines 498-503.
goes_to_zero_diff(fold, row) ==
    /\ fold \in Sections
    /\ Col(row, 5) = Some(0)
    /\ ~IsNone(Col(row, 6))
    /\ Val(Col(row, 6)) > alert_threshold_days

\* Lines 459-504 for one 3-tuple of rows_info.
EmitRow ==
    /\ pc = "emit"
    /\ ridx < Len(rows_info)
    /\ Len(rows_info[ridx + 1]) = 3
    /\ LET row == rows_info[ridx + 1][1]
           is_alert == rows_info[ridx + 1][2]
           ba_entries == rows_info[ridx + 1][3]
           expanded_rows == expanded_rows_of(row, ba_entries)
       IN  /\ ws' = [ws EXCEPT ![folder] = @ \o expanded_rows]
           /\ ws_src' = [ws_src EXCEPT ![folder] =
                            @ \o [i \in 1..Len(expanded_rows) |-> ridx + 1]]
           /\ flagged_src' = IF goes_to_flagged(folder, is_alert)
                             THEN [flagged_src EXCEPT ![folder] = @ \cup {ridx + 1}]
                             ELSE flagged_src
           /\ zero_src' = IF goes_to_zero_diff(folder, row)
                          THEN [zero_src EXCEPT ![folder] = @ \cup {ridx + 1}]
                          ELSE zero_src
           /\ flagged_by_section' =
                IF goes_to_flagged(folder, is_alert)
                THEN [flagged_by_section EXCEPT ![folder] = @ \o expanded_rows]
                ELSE flagged_by_section
           /\ zero_diff_by_section' =
                IF goes_to_zero_diff(folder, row)
                THEN [zero_diff_by_section EXCEPT ![folder] = @ \o expanded_rows]
                ELSE zero_diff_by_section
    /\ ridx' = ridx + 1
    /\ UNCHANGED <<vparse, legacy, call, ret, today, grouped, ba_map, pypi_cache, npm_cache, requests, pc,
                   fidx, iidx, rows_info, built, summary_rows, zero_rows, ba_in, ba_out>>

\* Line 459 for a 2-tuple of rows_info: the unpacking into (row, is_alert,
\* ba_entries) raises ValueError, which nothing catches; main ends there.
EmitRaise ==
    /\ pc = "emit"
    /\ ridx < Len(rows_info)
    /\ Len(rows_info[ridx + 1]) # 3
    /\ pc' = "raised"
    /\ UNCHANGED <<vparse, legacy, call, ret, today, grouped, ba_map, pypi_cache, npm_cache, requests, fidx,
                   iidx, ridx, rows_info, ws, ws_src, flagged_src, zero_src, built, flagged_by_section,
                   zero_diff_by_section, summary_rows, zero_rows, ba_in, ba_out>>

\* Line 318: the next folder of sorted(grouped.items()), or the end of the loop.
NextFolder ==
    /\ pc = "emit"
    /\ ridx = Len(rows_info)
    /\ IF fidx < Len(FolderOrder)
       THEN /\ fidx' = fidx + 1
            /\ pc' = "items"
       ELSE /\ fidx' = fidx
            /\ pc' = "summary"
    /\ iidx' = 0
    /\ ridx' = 0
    /\ rows_info' = <<>>
    /\ UNCHANGED <<vparse, legacy, call, ret, today, grouped, ba_map, pypi_cache, npm_cache, requests, ws,
                   ws_src, flagged_src, zero_src, built, flagged_by_section, zero_diff_by_section, summary_rows,
                   zero_rows, ba_in, ba_out>>

\* ---------------------------------------------------------- main: summaries
\* [section, *row] for every row collected for the sections, in section order.
RECURSIVE tagged_rows(_, _)
tagged_rows(by_section, sections) ==
    IF sections = <<>> THEN <<>>
    ELSE LET sec == Head(sections)
             rows == by_section[sec]
         IN  [i \in 1..Len(rows) |-> <<sec>> \o rows[i]] \o tagged_rows(by_section, Tail(sections))

\* summary_rows.sort / zero_rows.sort: key (r[8] is None, r[8] or -1), reverse.
sort_summary(rows) ==
    LET decorated == [i \in 1..Len(rows) |-> <<row_sort_key(rows[i], 8), rows[i]>>]
        ordered == SortedDesc(decorated)
    IN  [i \in 1..Len(ordered) |-> ordered[i][2]]

\* Lines 549-767: the two summary sheets are written and the workbook saved.
WriteSummary ==
    /\ pc = "summary"
    /\ summary_rows' = Some(sort_summary(tagged_rows(flagged_by_section, summary_sections)))
    /\ zero_rows' = Some(sort_summary(tagged_rows(zero_diff_by_section, summary_sections)))
    /\ pc' = "done"
    /\ UNCHANGED <<vparse, legacy, call, ret, today, grouped, ba_map, pypi_cache, npm_cache, requests, fidx,
                   iidx, ridx, rows_info, ws, ws_src, flagged_src, zero_src, built, flagged_by_section,
                   zero_diff_by_section, ba_in, ba_out>>

Next ==
    \/ SkipExcluded
    \/ ProcessPypi
    \/ ProcessNpm
    \/ SortRows
    \/ EmitRow
    \/ EmitRaise
    \/ NextFolder
    \/ WriteSummary

Spec == Init /\ [][Next]_vars

\* ------------------------------------------------ approval ordering alone
\* The metadata an approval may carry.
BAEndDates == {None, DateV(1030), DateV(1200), Some(<<"str", <<"bad">> >>)}

BAStatuses == {None, Some("Approved"), Some("pending")}

BAMetas == { Meta(None, e, None, st) : e \in BAEndDates, st \in BAStatuses }

\* The dicts ba_id -> meta of at most MaxBA approvals, in every insertion order.
IsBAInput(m) ==
    \E k \in 0..MaxBA :
        \E ids \in [1..k -> SeqToSet(BAIdOrder)], metas \in [1..k -> BAMetas] :
            /\ \A i, j \in 1..k : i # j => ids[i] # ids[j]
            /\ m = [i \in 1..k |-> <<ids[i], metas[i]>>]

InitBA ==
    /\ vparse = TRUE
    /\ legacy = FALSE
    /\ call = <<>>
    /\ ret = None
    /\ today = 1000
    /\ grouped = [f \in Folders |-> <<>>]
    /\ ba_map = <<>>
    /\ pypi_cache = <<>>
    /\ npm_cache = <<>>
    /\ requests = <<>>
    /\ pc = "ba"
    /\ fidx = 1
    /\ iidx = 0
    /\ ridx = 0
    /\ rows_info = <<>>
    /\ ws = [f \in Folders |-> <<>>]
    /\ ws_src = [f \in Folders |-> <<>>]
    /\ flagged_src = [f \in Folders |-> {}]
    /\ zero_src = [f \in Folders |-> {}]
    /\ built = [f \in Folders |-> None]
    /\ flagged_by_section = [sec \in Sections |-> <<>>]
    /\ zero_diff_by_section = [sec \in Sections |-> <<>>]
    /\ summary_rows = None
    /\ zero_rows = None
    /\ IsBAInput(ba_in)
    /\ ba_out = None

\* Lines 403-420: ba_entries of a row whose key maps to ba_in.
OrderApprovals ==
    /\ pc = "ba"
    /\ ba_out = None
    /\ ba_out' = Some(IF ba_in = <<>> THEN <<>> ELSE SortBA(ba_in))
    /\ UNCHANGED <<vparse, legacy, call, ret, today, grouped, ba_map, pypi_cache, npm_cache, requests, pc,
                   fidx, iidx, ridx, rows_info, ws, ws_src, flagged_src, zero_src, built,
                   flagged_by_section, zero_diff_by_section, summary_rows, zero_rows, ba_in>>

NextBA == OrderApprovals

SpecBA == InitBA /\ [][NextBA]_vars

\* ----------------------------------------------------- sanitize_sheet_name
\* A name is the sequence of its characters. The pattern [\\/*?:\\[\\]] of
\* line 176 is the class of \ / * ? : [ followed by the character ].
PatternClass == {"\\", "/", "*", "?", ":", "["}

\* re.sub(pattern, "_", name): leftmost non-overlapping matches replaced.
RECURSIVE re_sub(_)
re_sub(name) ==
    IF name = <<>> THEN <<>>
    ELSE IF Len(name) >= 2 /\ name[1] \in PatternClass /\ name[2] = "]"
         THEN <<"_">> \o re_sub(SubSeq(name, 3, Len(name)))
    ELSE <<name[1]>> \o re_sub(Tail(name))

SheetNameMax == 31

sanitize_sheet_name(name) ==
    LET cleaned == re_sub(name)
    IN  IF cleaned # <<>>
        THEN SubSeq(cleaned, 1, IF Len(cleaned) < SheetNameMax THEN Len(cleaned) ELSE SheetNameMax)
        ELSE <<"S", "h", "e", "e", "t">>

\* ------------------------------------------------------------- load_ba_map
\* A ledger row is the seven cells the loop reads, each already `or ""`:
\* name, version, ba_id, end_action and status are texts; created and
\* end_date are date texts, <<>> for the empty one.
\* str.strip on the texts of the model.
Strip(t) ==
    CASE t = " " -> ""
      [] t = "requests " -> "requests"
      [] OTHER -> t

\* Lines 97-108: None for the empty text, the date where the text is an ISO
\* date, the text itself otherwise.
ba_date_value(text) ==
    IF text = <<>> THEN None
    ELSE IF text[1] = "iso" THEN Some(<<"date", text[2]>>)
    ELSE Some(<<"str", text>>)

\* Lines 112-117.
ba_meta_of(row) ==
    [ created |-> ba_date_value(row.created),
      end_date |-> ba_date_value(row.end_date),
      end_action |-> IF Strip(row.end_action) = "" THEN None ELSE Some(Strip(row.end_action)),
      status |-> IF Strip(row.status) = "" THEN None ELSE Some(Strip(row.status)) ]

\* d[k] = v on a dict held as a sequence of pairs: in place for a key it has,
\* appended for a new one.
DictPut(d, k, v) ==
    IF \E i \in 1..Len(d) : d[i][1] = k
    THEN [i \in 1..Len(d) |-> IF d[i][1] = k THEN <<k, v>> ELSE d[i]]
    ELSE Append(d, <<k, v>>)

\* mapping[key][ba_id] = meta whether or not the ID is there already.
ba_insert_overwrite(ids, ba_id, meta) == DictPut(ids, ba_id, meta)

\* Lines 111-117: `if ba_id not in mapping[key]: mapping[key][ba_id] = meta`.
ba_insert(ids, ba_id, meta) ==
    IF ~IsNone(DictGet(ids, ba_id)) THEN ids ELSE DictPut(ids, ba_id, meta)

\* Lines 88-117: the loop body for one row.
load_ba_row(mapping, row) ==
    LET name == Strip(row.name)
        version == Strip(row.version)
        ba_id == Strip(row.ba_id)
        key == <<Lower(name), version>>
        had == DictGet(mapping, key)
        ids == IF IsNone(had) THEN <<>> ELSE Val(had)
    IN  IF name = "" \/ version = "" \/ ba_id = "" THEN mapping
        ELSE DictPut(mapping, key, ba_insert(ids, ba_id, ba_meta_of(row)))

RECURSIVE load_ba_rows(_, _)
load_ba_rows(mapping, rows) ==
    IF rows = <<>> THEN mapping
    ELSE load_ba_rows(load_ba_row(mapping, Head(rows)), Tail(rows))

\* ledger is None where path.exists() is false, Some(rows) otherwise.
load_ba_map(ledger) == IF IsNone(ledger) THEN <<>> ELSE load_ba_rows(<<>>, Val(ledger))

\* ------------------------------------------------------ one function alone
\* The keys a PyPI releases dict may hold.
PypiKeys == {"", "1.9", "1.10", "2.0", "2.1rc1", "2.2.post1", "2.3.dev1", "2.4+local", "2004d"}

\* The keys an NPM time map may hold.
NpmKeys == {"created", "modified", "1.0.0", "1.2.0", "2.0.0-beta.1", "1.0.0-next.1"}

\* The key lists of a dict: no key twice.
KeyLists(keys) ==
    { q \in SeqsUpTo(keys, MaxKeys) : \A i, j \in 1..Len(q) : i # j => q[i] # q[j] }

\* A releases dict of those keys (its file lists play no part in the choice).
ReleasesOf(q) == [i \in 1..Len(q) |-> <<q[i], <<>> >>]

\* A time map of those keys.
TimeMapOf(q) == [i \in 1..Len(q) |-> <<q[i], <<"iso", 100>> >>]

Infos == { <<>>, << <<"version", "2.1rc1">> >> }

LatestCalls ==
    { [fn |-> "get_latest_version", info |-> i, releases |-> ReleasesOf(q)] :
        i \in Infos, q \in KeyLists(PypiKeys) }

PypiLatestCalls ==
    { [fn |-> "pypi_latest_version", name |-> n, current_version |-> c,
       info |-> i, releases |-> ReleasesOf(q)] :
        n \in {"Django", "requests"}, c \in {"1.9", "2.0", "1.x"},
        i \in Infos, q \in KeyLists(PypiKeys) }

\* NPM documents: with or without dist-tags.latest, and a time map.
NpmLatestCalls ==
    { [fn |-> "get_npm_latest_version",
       data |-> (IF t = "" THEN <<>> ELSE << <<"dist-tags", << <<"latest", t>> >> >> >>)
                \o << <<"time", TimeMapOf(q)>> >>] :
        t \in {"", "1.2.0", "2.0.0-beta.1", "1.0.0-next.1"}, q \in KeyLists(NpmKeys) }

SheetChars == {"a", "\\", "/", "*", "?", ":", "[", "]"}

\* Folder names: up to MaxPrefix characters, then a run of the letter a.
SanitizeCalls ==
    { [fn |-> "sanitize_sheet_name", name |-> q \o [i \in 1..k |-> "a"]] :
        q \in SeqsUpTo(SheetChars, MaxPrefix), k \in {0, 29, 30, 31} }

LedgerRow(name, version, ba_id, created, end_date, end_action, status) ==
    [name |-> name, version |-> version, ba_id |-> ba_id, created |-> created,
     end_date |-> end_date, end_action |-> end_action, status |-> status]

LedgerRows ==
    { LedgerRow("requests", "1.9", "BA-1", <<"iso", 10>>, <<"iso", 1030>>, "renew", "Approved"),
      LedgerRow("Requests", "1.9", "BA-1", <<>>, <<"bad">>, "", "pending"),
      LedgerRow("requests", "1.9", "BA-2", <<"bad">>, <<>>, " ", ""),
      LedgerRow("requests ", "1.9", "BA-2", <<"iso", 20>>, <<"iso", 1200>>, "", "Approved"),
      LedgerRow("requests", "1.10", "BA-1", <<>>, <<>>, "", "pending"),
      LedgerRow("", "1.9", "BA-3", <<"iso", 10>>, <<>>, "", "Approved"),
      LedgerRow("requests", " ", "BA-3", <<"iso", 10>>, <<>>, "", "Approved"),
      LedgerRow("requests", "1.9", "", <<"iso", 10>>, <<>>, "", "Approved") }

LoadCalls ==
    { [fn |-> "load_ba_map", ledger |-> l] :
        l \in {None} \cup { Some(rows) : rows \in SeqsUpTo(LedgerRows, MaxRows) } }

InitFn ==
    /\ vparse \in BOOLEAN
    /\ legacy \in BOOLEAN
    /\ \/ call \in LatestCalls
       \/ call \in PypiLatestCalls
       \/ call \in NpmLatestCalls
       \/ call \in SanitizeCalls
       \/ call \in LoadCalls
    /\ ret = None
    /\ today = 1000
    /\ grouped = [f \in Folders |-> <<>>]
    /\ ba_map = <<>>
    /\ pypi_cache = <<>>
    /\ npm_cache = <<>>
    /\ requests = <<>>
    /\ pc = "fn"
    /\ fidx = 1
    /\ iidx = 0
    /\ ridx = 0
    /\ rows_info = <<>>
    /\ ws = [f \in Folders |-> <<>>]
    /\ ws_src = [f \in Folders |-> <<>>]
    /\ flagged_src = [f \in Folders |-> {}]
    /\ zero_src = [f \in Folders |-> {}]
    /\ built = [f \in Folders |-> None]
    /\ flagged_by_section = [sec \in Sections |-> <<>>]
    /\ zero_diff_by_section = [sec \in Sections |-> <<>>]
    /\ summary_rows = None
    /\ zero_rows = None
    /\ ba_in = <<>>
    /\ ba_out = None

FnRest == <<vparse, legacy, call, today, grouped, ba_map, pypi_cache, npm_cache, requests,
            pc, fidx, iidx, ridx, rows_info, ws, ws_src, flagged_src, zero_src, built,
            flagged_by_section, zero_diff_by_section, summary_rows, zero_rows, ba_in, ba_out>>

Call_get_latest_version ==
    /\ pc = "fn" /\ ret = None
    /\ call.fn = "get_latest_version"
    /\ ret' = Some(get_latest_version(call.info, call.releases))
    /\ UNCHANGED FnRest

Call_pypi_latest_version ==
    /\ pc = "fn" /\ ret = None
    /\ call.fn = "pypi_latest_version"
    /\ ret' = Some(pypi_latest_version(call.name, call.info, call.releases,
                                       call.current_version))
    /\ UNCHANGED FnRest

Call_get_npm_latest_version ==
    /\ pc = "fn" /\ ret = None
    /\ call.fn = "get_npm_latest_version"
    /\ ret' = Some(get_npm_latest_version(call.data))
    /\ UNCHANGED FnRest

Call_sanitize_sheet_name ==
    /\ pc = "fn" /\ ret = None
    /\ call.fn = "sanitize_sheet_name"
    /\ ret' = Some(sanitize_sheet_name(call.name))
    /\ UNCHANGED FnRest

Call_load_ba_map ==
    /\ pc = "fn" /\ ret = None
    /\ call.fn = "load_ba_map"
    /\ ret' = Some(load_ba_map(call.ledger))
    /\ UNCHANGED FnRest

NextFn ==
    \/ Call_get_latest_version
    \/ Call_pypi_latest_version
    \/ Call_get_npm_latest_version
    \/ Call_sanitize_sheet_name
    \/ Call_load_ba_map

SpecFn == InitFn /\ [][NextFn]_vars

\* ================================================================== claims
\* The rows_info entries built so far: those of the current folder and those
\* of every folder already sorted.
AllEntries ==
    SeqToSet(rows_info) \cup
    UNION { SeqToSet(Val(built[f])) : f \in { g \in Folders : ~IsNone(built[g]) } }

\* A record whose registry fetch failed: its name is cached as None.
FetchFailed(rec) ==
    IF rec[3] = "pypi"
    THEN rec[1] \in DOMAIN pypi_cache /\ IsNone(pypi_cache[rec[1]])
    ELSE rec[1] \in DOMAIN npm_cache /\ IsNone(npm_cache[rec[1]])

\* The emit loop of folder f has run to its end.
FolderEmitted(f) ==
    \/ pc \in {"summary", "done"}
    \/ /\ pc \in {"items", "emit"}
       /\ \E i \in 1..Len(FolderOrder) :
            /\ FolderOrder[i] = f
            /\ \/ i < fidx
               \/ i = fidx /\ pc = "emit" /\ ridx = Len(rows_info)

NullDerived(row) == \A i \in 2..12 : IsNone(Col(row, i))

\* C1: every record whose registry fetch failed still gets exactly one output
\* row, with latest version, both dates and the three day counts null, and
\* neither the folder nor the run ever ends in an exception.
C1_FailedFetchStillEmitsRow ==
    /\ pc # "raised"
    /\ \A f \in Folders :
         FolderEmitted(f) =>
           \A k \in 1..Len(grouped[f]) :
             LET rec == grouped[f][k]
                 same == { j \in 1..Len(grouped[f]) : grouped[f][j] = rec }
                 rows == { i \in 1..Len(ws[f]) :
                             Col(ws[f][i], 0) = rec[1] /\ Col(ws[f][i], 1) = rec[2] }
             IN  FetchFailed(rec) =>
                   /\ Cardinality(rows) = Cardinality(same)
                   /\ \A i \in rows : NullDerived(ws[f][i])

NoDupSeq(q) == \A i, j \in 1..Len(q) : i # j => q[i] # q[j]

RequestedNames(eco) == { requests[i][2] : i \in { j \in 1..Len(requests) : requests[j][1] = eco } }

\* One step of the run, as the cache claim sees it.
C2_Step ==
    /\ \A n \in DOMAIN pypi_cache : n \in DOMAIN pypi_cache' /\ pypi_cache'[n] = pypi_cache[n]
    /\ \A n \in DOMAIN npm_cache : n \in DOMAIN npm_cache' /\ npm_cache'[n] = npm_cache[n]
    /\ NoDupSeq(requests')
    /\ DOMAIN pypi_cache' = RequestedNames("pypi")'
    /\ DOMAIN npm_cache' = RequestedNames("npm")'
    /\ (pc = "items" /\ iidx' = iidx + 1 /\ Len(rows_info') = Len(rows_info) + 1) =>
         LET rec == items[iidx + 1]
             cache == IF rec[3] = "pypi" THEN pypi_cache ELSE npm_cache
             failed == Len(rows_info'[Len(rows_info')]) = 2
         IN  IF rec[1] \in DOMAIN cache
             THEN requests' = requests /\ (IsNone(cache[rec[1]]) => failed)
             ELSE requests' = Append(requests, <<rec[3], rec[1]>>)

\* C2: within one run at most one request is issued per (package name,
\* ecosystem): the first fetch stores its result, data or None, in the cache,
\* a stored result never changes, and a later fetch of the name issues no
\* request and gets the stored result, so a failed fetch is not retried.
C2_OneRequestPerName == [][C2_Step]_vars

\* A name whose only request failed has been fetched a second time in the folder.
C2_Witness ==
    /\ Len(requests) = 1
    /\ requests[1] = <<"pypi", "requests">>
    /\ IsNone(pypi_cache["requests"])
    /\ Len(rows_info) = 2
    /\ \A i \in 1..2 : Col(rows_info[i][1], 0) = "requests" /\ Len(rows_info[i]) = 2

\* C3: a row is classified stale exactly when its days since the current
\* release are present and above 668 (2*365 - 2*31) and its days difference
\* is present and above 0.
C3_StaleIff ==
    \A e \in AllEntries :
        e[2] <=> /\ ~IsNone(Col(e[1], 7))
                 /\ Val(Col(e[1], 7)) > 668
                 /\ ~IsNone(Col(e[1], 5))
                 /\ Val(Col(e[1], 5)) > 0

\* A row whose current release is 900 days old and 890 days older than the
\* latest one has been classified stale.
C3_Witness ==
    \E e \in AllEntries :
        /\ e[2]
        /\ Col(e[1], 7) = Some(900)
        /\ Col(e[1], 5) = Some(890)

\* The run is over for folder f: its emit loop ran to its end or was left by
\* the exception.
FolderOver(f) == ~IsNone(built[f]) /\ (FolderEmitted(f) \/ pc = "raised")

\* C4: a row of an allow-listed folder is in the zero-diff collection exactly
\* when its days difference is 0 and its days since the latest release are
\* present and above the threshold, and a row placed there is not in the
\* flagged collection.
C4_ZeroDiffIff ==
    \A f \in Folders \cap Sections :
        FolderOver(f) =>
          \A k \in 1..Len(Val(built[f])) :
            LET row == Val(built[f])[k][1]
            IN  /\ (k \in zero_src[f]) <=>
                     /\ Col(row, 5) = Some(0)
                     /\ ~IsNone(Col(row, 6))
                     /\ Val(Col(row, 6)) > 668
                /\ (k \in zero_src[f]) => (k \notin flagged_src[f])

ExcludedNames == {"colorlog", "django-extensions", "redis", "setuptools", "wheel"}

NameVersionOf(recs) == [i \in 1..Len(recs) |-> <<recs[i][1], recs[i][2]>>]

EntryNameVersion(infos) == [i \in 1..Len(infos) |-> <<Col(infos[i][1], 0), Col(infos[i][1], 1)>>]

CountIn(q, x) == Cardinality({ i \in 1..Len(q) : q[i] = x })

NotExcluded(recs) == SelectSeq(recs, LAMBDA r : Lower(r[1]) \notin ExcludedNames)

C6_SortedByLatestNullLast ==
    \A f \in Folders :
        \A i, j \in 1..Len(ws[f]) :
            i < j =>
              LET a == Col(ws[f][i], 6)
                  b == Col(ws[f][j], 6)
              IN  /\ IsNone(a) => IsNone(b)
                  /\ (~IsNone(a) /\ ~IsNone(b)) => Val(a) >= Val(b)

\* C6, amended: the rows of a folder are emitted in descending order of days
\* since the current release, and every row without that value comes before
\* every row that has one.
C6_SortedByCurrentNullFirst ==
    \A f \in Folders :
        \A i, j \in 1..Len(ws[f]) :
            i < j =>
              LET a == Col(ws[f][i], 7)
                  b == Col(ws[f][j], 7)
              IN  /\ IsNone(b) => IsNone(a)
                  /\ (~IsNone(a) /\ ~IsNone(b)) => Val(a) >= Val(b)

\* A sheet holds a resolved row without days since the current release (its
\* days since the latest release present), then a row that has them.
C6_Witness ==
    \E f \in Folders :
        /\ Len(ws[f]) >= 2
        /\ IsNone(Col(ws[f][1], 7))
        /\ ~IsNone(Col(ws[f][1], 6))
        /\ ~IsNone(Col(ws[f][2], 7))

\* The end date of an approval as the ordering reads it: a date, or a text
\* that parses as one; None otherwise.
ValidEnd(meta) ==
    IF IsNone(meta.end_date) THEN None
    ELSE IF Val(meta.end_date)[1] = "date" THEN Some(Val(meta.end_date)[2])
    ELSE IF Val(meta.end_date)[2][1] = "iso" THEN Some(Val(meta.end_date)[2][2])
    ELSE None

IsApproved(meta) == meta.status \in {Some("approved"), Some("Approved"), Some("APPROVED")}

Ordered == Val(ba_out)

\* C7 as stated: among the approvals of one row, one with a valid end date
\* comes before one without, whatever their statuses.
C7_DatedBeforeUndated ==
    ~IsNone(ba_out) =>
      \A i, j \in 1..Len(Ordered) :
        (~IsNone(ValidEnd(Ordered[i][2])) /\ IsNone(ValidEnd(Ordered[j][2]))) => i < j

\* C7, amended: among the approvals of one row, one without a valid end date
\* comes before one with a valid end date, whatever their statuses: "approved"
\* with no end date comes before "pending" with end date today+30.
C7_UndatedBeforeDated ==
    ~IsNone(ba_out) =>
      \A i, j \in 1..Len(Ordered) :
        (IsNone(ValidEnd(Ordered[i][2])) /\ ~IsNone(ValidEnd(Ordered[j][2]))) => i < j

\* The ledger held the pending approval ending today+30 before the approved
\* one without end date; the ordering has put the approved one first.
C7_Witness ==
    /\ Len(ba_in) = 2
    /\ ba_in[1][2].status = Some("pending") /\ ba_in[1][2].end_date = DateV(today + 30)
    /\ IsApproved(ba_in[2][2]) /\ IsNone(ba_in[2][2].end_date)
    /\ ~IsNone(ba_out)
    /\ Ordered = <<ba_in[2], ba_in[1]>>

SameEnd(a, b) == ValidEnd(a[2]) = ValidEnd(b[2])

\* C8 as stated: among approvals of equal end date (or all without one), the
\* not approved come before the approved, and those equal on date and status
\* class follow the approval ID (descending, as the whole order is).
C8_NonApprovedFirst ==
    ~IsNone(ba_out) =>
      \A i, j \in 1..Len(Ordered) :
        LET a == Ordered[i]
            b == Ordered[j]
        IN  SameEnd(a, b) =>
              /\ (~IsApproved(a[2]) /\ IsApproved(b[2])) => i < j
              /\ (IsApproved(a[2]) = IsApproved(b[2])
                    /\ StrRank(BAIdOrder, a[1]) > StrRank(BAIdOrder, b[1])) => i < j

\* C8, amended: among approvals of equal end date (or all without one), the
\* approved (case-insensitive) come before the not approved, and those equal
\* on date and status class are in descending order of approval ID.
C8_ApprovedFirst ==
    ~IsNone(ba_out) =>
      \A i, j \in 1..Len(Ordered) :
        LET a == Ordered[i]
            b == Ordered[j]
        IN  SameEnd(a, b) =>
              /\ (IsApproved(a[2]) /\ ~IsApproved(b[2])) => i < j
              /\ (IsApproved(a[2]) = IsApproved(b[2])
                    /\ StrRank(BAIdOrder, a[1]) > StrRank(BAIdOrder, b[1])) => i < j

\* Three approvals ending the same day were handed over as pending BA-3,
\* Approved BA-10, Approved BA-2; they come out BA-2, BA-10, BA-3.
C8_Witness ==
    /\ Len(ba_in) = 3
    /\ \A i \in 1..3 : ba_in[i][2].end_date = DateV(1200)
    /\ ba_in[1][1] = "BA-3" /\ ba_in[1][2].status = Some("pending")
    /\ ba_in[2][1] = "BA-10" /\ ba_in[2][2].status = Some("Approved")
    /\ ba_in[3][1] = "BA-2" /\ ba_in[3][2].status = Some("Approved")
    /\ ~IsNone(ba_out)
    /\ Ordered = <<ba_in[3], ba_in[2], ba_in[1]>>

\* C9: a resolved row without matching approvals gives exactly one output row
\* with its five approval cells empty; a row with n >= 1 matching approvals
\* gives exactly n output rows, one per approval ID, each with the row's eight
\* other cells and that approval's ID, status, created date, end date and
\* end action.
C9_RowExpansion ==
    \A f \in Folders :
        FolderOver(f) =>
          \A k \in 1..Len(Val(built[f])) :
            LET entry == Val(built[f])[k]
                rows == { i \in 1..Len(ws[f]) : ws_src[f][i] = k }
            IN  Len(entry) = 3 =>
                  IF entry[3] = <<>>
                  THEN /\ Cardinality(rows) = 1
                       /\ \A i \in rows : ws[f][i] = entry[1]
                  ELSE /\ Cardinality(rows) = Len(entry[3])
                       /\ \A i \in rows : \A c \in 0..7 : Col(ws[f][i], c) = Col(entry[1], c)
                       /\ \A b \in 1..Len(entry[3]) :
                            Cardinality({ i \in rows :
                                /\ Col(ws[f][i], 8) = Some(entry[3][b][1])
                                /\ Col(ws[f][i], 9) = entry[3][b][2].status
                                /\ Col(ws[f][i], 10) = entry[3][b][2].created
                                /\ Col(ws[f][i], 11) = entry[3][b][2].end_date
                                /\ Col(ws[f][i], 12) = entry[3][b][2].end_action }) = 1

\* C10: in every emitted row the days difference is present exactly when both
\* release dates are, and is then latest minus current, negative or not; the
\* days since the latest (current) release are present exactly when the
\* latest (current) release date is, and are then today minus that date.
C10_DayCounts ==
    \A f \in Folders :
        \A i \in 1..Len(ws[f]) :
            LET row == ws[f][i]
                current_date == Col(row, 2)
                latest_date == Col(row, 4)
            IN  /\ ~IsNone(Col(row, 5)) <=> (~IsNone(current_date) /\ ~IsNone(latest_date))
                /\ ~IsNone(Col(row, 5)) => Val(Col(row, 5)) = Val(latest_date) - Val(current_date)
                /\ ~IsNone(Col(row, 6)) <=> ~IsNone(latest_date)
                /\ ~IsNone(Col(row, 6)) => Val(Col(row, 6)) = today - Val(latest_date)
                /\ ~IsNone(Col(row, 7)) <=> ~IsNone(current_date)
                /\ ~IsNone(Col(row, 7)) => Val(Col(row, 7)) = today - Val(current_date)

\* Two rows have been emitted: one whose latest release predates its current
\* one (a negative difference), one with a latest but no current release date.
C10_Witness ==
    \E f \in Folders :
        /\ \E i \in 1..Len(ws[f]) :
             ~IsNone(Col(ws[f][i], 5)) /\ Val(Col(ws[f][i], 5)) < 0
        /\ \E i \in 1..Len(ws[f]) :
             /\ IsNone(Col(ws[f][i], 5)) /\ IsNone(Col(ws[f][i], 7))
             /\ ~IsNone(Col(ws[f][i], 6))

\* The expanded rows of the stale entries of folder f, in emit order.
RECURSIVE StaleExpanded(_)
StaleExpanded(infos) ==
    IF infos = <<>> THEN <<>>
    ELSE LET e == Head(infos)
         IN  (IF Len(e) = 3 /\ e[2] THEN expanded_rows_of(e[1], e[3]) ELSE <<>>)
             \o StaleExpanded(Tail(infos))

\* C11: the flagged and the zero-diff collection hold rows of allow-listed
\* folders (sources, tipcms, collection) only; once the run is over for an
\* allow-listed folder, the flagged collection holds all expanded rows of each
\* of its stale rows; no row of another folder is in either collection.
C11_AllowListCollections ==
    /\ \A f \in Folders \ {"sources", "tipcms", "collection"} :
         flagged_src[f] = {} /\ zero_src[f] = {}
    /\ \A sec \in DOMAIN flagged_by_section \ Folders : flagged_by_section[sec] = <<>>
    /\ \A sec \in DOMAIN zero_diff_by_section \ Folders : zero_diff_by_section[sec] = <<>>
    /\ \A f \in Folders \cap {"sources", "tipcms", "collection"} :
         /\ \A i \in 1..Len(flagged_by_section[f]) :
              \E j \in 1..Len(ws[f]) : ws[f][j] = flagged_by_section[f][i]
         /\ \A i \in 1..Len(zero_diff_by_section[f]) :
              \E j \in 1..Len(ws[f]) : ws[f][j] = zero_diff_by_section[f][i]
         /\ FolderOver(f) => flagged_by_section[f] = StaleExpanded(Val(built[f]))

\* The function fn was called alone and has come to its end.
Done(fn) == pc = "fn" /\ call.fn = fn /\ ~IsNone(ret)

\* What the call gave: None, Some(value) or Raised for the version functions.
Result == Val(ret)

\* A version text without pre, post, dev or local marker.
StableText(v) == v # "" /\ VParse(v).kind = "final"

StableAmong(keys) == { v \in SeqToSet(keys) : StableText(v) }

\* v is in S and no member of S has lexicographically greater numeric components.
IsMaxOf(v, S) == v \in S /\ \A w \in S : ~TupleLess(VParse(v).release, VParse(w).release)

\* r is the latest stable version among keys: null when none is stable.
LatestStableOf(keys, r) ==
    IF StableAmong(keys) = {} THEN r = None
    ELSE Len(r) = 1 /\ IsMaxOf(r[1], StableAmong(keys))

\* C12: get_latest_version returns the maximum, under parsed version ordering
\* (1.10 above 1.9), among the release keys that carry no pre, post, dev or
\* local marker, and returns null when no key is stable; a stable B is never
\* returned when a stable A of greater numeric components is present.
C12_LatestStable ==
    Done("get_latest_version") => LatestStableOf(DictKeys(call.releases), Result)

\* C13: get_npm_latest_version returns the dist-tags latest value when that is
\* a stable version; otherwise the maximum stable key of the time map, the
\* entries created and modified left out; and null, never the unstable tag,
\* when the tag is absent or unstable and no key is stable.
C13_NpmLatest ==
    Done("get_npm_latest_version") =>
      LET dist_tags == DictGet(call.data, "dist-tags")
          tag == IF IsNone(dist_tags) THEN None ELSE DictGet(Val(dist_tags), "latest")
          keys == SelectSeq(DictKeys(Val(DictGet(call.data, "time"))),
                            LAMBDA v : v \notin {"created", "modified"})
      IN  IF ~IsNone(tag) /\ StableText(Val(tag)) THEN Result = tag
          ELSE LatestStableOf(keys, Result)

\* C14: sanitize_sheet_name returns at most 31 characters, none of them one
\* of \ / * ? : [ ], and returns "Sheet" when no character of the name is left
\* after cleaning.
C14_SanitizedSheetName ==
    Done("sanitize_sheet_name") =>
      /\ Len(Result) <= 31
      /\ \A i \in 1..Len(Result) : Result[i] \notin {"\\", "/", "*", "?", ":", "[", "]"}
      /\ (\A i \in 1..Len(call.name) :
             call.name[i] \in {"\\", "/", "*", "?", ":", "[", "]"})
           => Result = <<"S", "h", "e", "e", "t">>

\* C15: for a package named django (whatever the case) the latest version is
\* the maximum stable release of the pinned version's major whenever there is
\* one, and the global latest stable release only when there is none (major
\* unparseable, or no candidate); for any other package it is the global
\* latest stable release.
C15_DjangoSameMajor ==
    Done("pypi_latest_version") =>
      LET keys == DictKeys(call.releases)
          cur == call.current_version
          same == IF InvalidVersion(cur) THEN {}
                  ELSE { v \in StableAmong(keys) :
                           VParse(v).release[1] = VParse(cur).release[1] }
      IN  IF call.name \in {"django", "Django", "DJANGO"} /\ same # {}
          THEN Len(Result) = 1 /\ IsMaxOf(Result[1], same)
          ELSE LatestStableOf(keys, Result)

\* The key and the approval ID a ledger row is filed under.
RowKey(row) == <<Lower(Strip(row.name)), Strip(row.version)>>

RowId(row) == Strip(row.ba_id)

RowComplete(row) == Strip(row.name) # "" /\ Strip(row.version) # "" /\ RowId(row) # ""

\* C16: after load_ba_map has read the ledger rows, the map holds, for each
\* key (lowercased name, version) and approval ID, the metadata of the first
\* row with that key and ID; a row with an empty name, version or approval ID
\* contributes nothing; a missing ledger file gives the empty map.
C16_FirstSeenWins ==
    Done("load_ba_map") =>
      IF IsNone(call.ledger) THEN Result = <<>>
      ELSE LET rows == Val(call.ledger)
               Kept == { i \in 1..Len(rows) : RowComplete(rows[i]) }
               First(i) == CHOOSE j \in Kept :
                              /\ RowKey(rows[j]) = RowKey(rows[i])
                              /\ RowId(rows[j]) = RowId(rows[i])
                              /\ \A k \in Kept :
                                   (RowKey(rows[k]) = RowKey(rows[i])
                                      /\ RowId(rows[k]) = RowId(rows[i])) => j <= k
           IN  /\ \A a, b \in 1..Len(Result) : a # b => Result[a][1] # Result[b][1]
               /\ \A a \in 1..Len(Result) :
                    /\ \A c, d \in 1..Len(Result[a][2]) :
                         c # d => Result[a][2][c][1] # Result[a][2][d][1]
                    /\ \A c \in 1..Len(Result[a][2]) :
                         \E i \in Kept : /\ RowKey(rows[i]) = Result[a][1]
                                         /\ RowId(rows[i]) = Result[a][2][c][1]
               /\ \A i \in Kept :
                    LET ids == DictGet(Result, RowKey(rows[i]))
                    IN  /\ ~IsNone(ids)
                        /\ DictGet(Val(ids), RowId(rows[i])) = Some(ba_meta_of(rows[First(i)]))

\* A ledger of three rows was read: an approval of requests 1.9, the same
\* approval ID again under the name Requests with other metadata, and a row
\* without a name; the map holds the one approval with the first row's
\* metadata.
C16_Witness ==
    /\ Done("load_ba_map")
    /\ ~IsNone(call.ledger)
    /\ LET rows == Val(call.ledger)
       IN  /\ Len(rows) = 3
           /\ rows[1].name = "requests" /\ rows[2].name = "Requests" /\ rows[3].name = ""
           /\ rows[1].version = rows[2].version /\ rows[1].ba_id = rows[2].ba_id
           /\ ba_meta_of(rows[1]) # ba_meta_of(rows[2])
           /\ Result = << <<RowKey(rows[1]), << <<RowId(rows[1]), ba_meta_of(rows[1])>> >> >> >>

====
